---- MODULE Spec2Model ----
(***************************************************************************)
(* GrandArchiveProxier: the deck normalizers (printerGA.py,                *)
(* generate_from_tts.py), the grid paginator (printerGA.py) and the        *)
(* generation run (generate_from_tts.generate_from_source).                *)
(*                                                                         *)
(* A decoded JSON value is a record with the same five fields whatever it  *)
(* is, so that any two values can be compared:                             *)
(*   t    "null" | "str" | "int" | "list" | "dict"                         *)
(*   s    the text of a string, n the value of an integer                  *)
(*   vals the items of a list, or the values of a dict in key order        *)
(*   keys the keys of a dict, in insertion order (Python dicts are ordered)*)
(* Python's None and JSON's null are the same value, JNull.                *)
(***************************************************************************)
EXTENDS Integers, Sequences, FiniteSets, TLC

VARIABLES
    input,      \* the decoded JSON document the run works on
    srcKind,    \* generate_from_source: "local" (Path(source).exists()) or "url"
    pc,         \* position of the modelled code
    printer,    \* the GADeckPrinter: deck_name, cards_per_row, cards_per_column,
                \* cards, card_images, image_cache
    pg,         \* create_printable_cards_pdf's locals: ci, qty, card_index, page_num
    canvas,     \* the reportlab canvas as the code drives it: showPages, cells, saved
    requests,   \* requests.get calls issued by _download_image, per url
    result,     \* what the call returned: "none" (running), "ok", "empty", "raised"
    files,      \* output artifacts written so far
    gui         \* gui.App: the Generate and Open Output buttons, self._worker,
                \* self._result, the threads started, the pending after() callbacks

vars == <<input, srcKind, pc, printer, pg, canvas, requests, result, files, gui>>

---------------------------------------------------------------------------
(* Bounds of the explored inputs. *)
MaxLen == 2        \* items of a root / internal `cards` list
MaxObjs == 3       \* ContainedObjects of a save file
MaxCards == 2      \* entries of a deck handed directly to the paginator
MaxQty == 2        \* largest quantity of such an entry
MaxGrid == 2       \* largest cards_per_row / cards_per_column tried
MaxRuns == 4       \* generations started from the GUI

---------------------------------------------------------------------------
(* JSON / Python values *)
JNull == [t |-> "null", s |-> "", n |-> 0, keys |-> <<>>, vals |-> <<>>]
JStr(x) == [t |-> "str", s |-> x, n |-> 0, keys |-> <<>>, vals |-> <<>>]
JInt(x) == [t |-> "int", s |-> "", n |-> x, keys |-> <<>>, vals |-> <<>>]
JList(items) == [t |-> "list", s |-> "", n |-> 0, keys |-> <<>>, vals |-> items]
JDict(ks, vs) == [t |-> "dict", s |-> "", n |-> 0, keys |-> ks, vals |-> vs]

\* a dict literal from <<key, value>> pairs
Rec(pairs) ==
    JDict([i \in 1..Len(pairs) |-> pairs[i][1]], [i \in 1..Len(pairs) |-> pairs[i][2]])

IsDict(v) == v.t = "dict"
IsList(v) == v.t = "list"

\* Python truthiness: None, "", 0, [] and {} are falsy
Truthy(v) ==
    CASE v.t = "null" -> FALSE
      [] v.t = "str" -> v.s # ""
      [] v.t = "int" -> v.n # 0
      [] OTHER -> Len(v.vals) > 0

\* `k in d`
Has(d, k) == \E i \in 1..Len(d.keys) : d.keys[i] = k

\* d.get(k, dflt)
GetOr(d, k, dflt) ==
    IF Has(d, k) THEN d.vals[CHOOSE i \in 1..Len(d.keys) : d.keys[i] = k] ELSE dflt

\* d.get(k): None when the key is missing
Get(d, k) == GetOr(d, k, JNull)

\* d.setdefault(k, v): only a missing key is set
SetDefault(d, k, v) ==
    IF Has(d, k) THEN d ELSE [d EXCEPT !.keys = Append(@, k), !.vals = Append(@, v)]

\* `a or b`
PyOr(a, b) == IF Truthy(a) THEN a ELSE b

Digit == <<"0", "1", "2", "3", "4", "5", "6", "7", "8", "9">>

\* str(n) of an integer
RECURSIVE PyStr(_)
PyStr(n) ==
    IF n < 0 THEN "-" \o PyStr(0 - n)
    ELSE IF n < 10 THEN Digit[n + 1]
    ELSE PyStr(n \div 10) \o Digit[(n % 10) + 1]

\* the integers whose decimal text int() is asked to parse in this model
IntLits == -9..99

\* int(v): [ok, n]; None, lists and dicts raise TypeError, a string that is no
\* integer literal raises ValueError
PyInt(v) ==
    CASE v.t = "int" -> [ok |-> TRUE, n |-> v.n]
      [] v.t = "str" ->
            IF \E k \in IntLits : PyStr(k) = v.s
            THEN [ok |-> TRUE, n |-> CHOOSE k \in IntLits : PyStr(k) = v.s]
            ELSE [ok |-> FALSE, n |-> 0]
      [] OTHER -> [ok |-> FALSE, n |-> 0]

\* what an f-string shows for a value
Fmt(v) ==
    CASE v.t = "str" -> v.s
      [] v.t = "int" -> PyStr(v.n)
      [] v.t = "null" -> "None"
      [] OTHER -> "<object>"

---------------------------------------------------------------------------
(* GADeckPrinter *)

\* GADeckPrinter.__init__
NewPrinter(cards_per_row, cards_per_column) ==
    [deck_name |-> JStr("GA_Deck"),
     cards_per_row |-> cards_per_row,
     cards_per_column |-> cards_per_column,
     cards |-> <<>>,
     card_images |-> <<>>,
     image_cache |-> {}]

\* the card record add_card builds
Card(name, card_type, cost, power, toughness, ability, quantity, image_url) ==
    [name |-> name, type |-> card_type, cost |-> cost, power |-> power,
     toughness |-> toughness, ability |-> ability, quantity |-> quantity,
     image_url |-> image_url]

\* GADeckPrinter.add_card: append, never merge; remember the image by name
add_card(p, card) ==
    [p EXCEPT !.cards = Append(@, card),
              !.card_images = IF Truthy(card.image_url)
                              THEN (card.name :> card.image_url) @@ @
                              ELSE @]

\* add_card called with name, card_type, quantity and image_url only
add_card4(p, name, card_type, quantity, image_url) ==
    add_card(p, Card(name, card_type, JInt(0), JInt(0), JInt(0), JStr(""),
                     quantity, image_url))

---------------------------------------------------------------------------
(* generate_from_tts.build_printer_from_deck_json *)

\* the outcome of a normalizer: the printer it filled, or an exception
Returned(p) == [raised |-> FALSE, printer |-> p]
Raised(p) == [raised |-> TRUE, printer |-> p]

\* lines 85-86: the internal/export `cards` list; c.get on something that is
\* no dict raises AttributeError
RECURSIVE AddInternalCards(_, _, _)
AddInternalCards(p, items, i) ==
    IF i > Len(items) THEN Returned(p)
    ELSE IF ~IsDict(items[i]) THEN Raised(p)
    ELSE AddInternalCards(
            add_card4(p, GetOr(items[i], "name", JStr("Unknown")),
                         GetOr(items[i], "type", JStr("Card")),
                         GetOr(items[i], "quantity", JInt(1)),
                         GetOr(items[i], "image_url", JStr(""))),
            items, i + 1)

\* lines 108-112 and 127-131: a list-valued sub-deck; records are tagged
TagList(value, k) ==
    [i \in 1..Len(value.vals) |->
        IF IsDict(value.vals[i])
        THEN SetDefault(value.vals[i], "_source_deck", JStr(k))
        ELSE value.vals[i]]

\* lines 113-118 and 132-137: a mapping-valued sub-deck; the key names the record
TagMap(value, k) ==
    [i \in 1..Len(value.vals) |->
        IF IsDict(value.vals[i])
        THEN SetDefault(SetDefault(value.vals[i], "name", JStr(value.keys[i])),
                        "_source_deck", JStr(k))
        ELSE value.vals[i]]

\* the entries one sub-deck contributes
DeckEntries(value, k) ==
    IF IsList(value) THEN TagList(value, k)
    ELSE IF IsDict(value) THEN TagMap(value, k)
    ELSE <<>>

preferred_keys == <<"main", "material", "sideboard">>

\* lines 105-119: the preferred sub-decks, each if present and non-empty
RECURSIVE PreferredEntries(_, _)
PreferredEntries(cards_root, j) ==
    IF j > Len(preferred_keys) THEN <<>>
    ELSE (IF Has(cards_root, preferred_keys[j]) /\ Truthy(Get(cards_root, preferred_keys[j]))
          THEN DeckEntries(Get(cards_root, preferred_keys[j]), preferred_keys[j])
          ELSE <<>>)
         \o PreferredEntries(cards_root, j + 1)

\* line 119 with seen.add(k) forgotten
SeenKeysForgotten(cards_root) == {}

\* line 119: the preferred keys that were used
SeenKeys(cards_root) ==
    {preferred_keys[j] : j \in {i \in 1..Len(preferred_keys) :
        Has(cards_root, preferred_keys[i]) /\ Truthy(Get(cards_root, preferred_keys[i]))}}

\* lines 122-137: every other non-empty sub-deck, in the mapping's own order
RECURSIVE OtherEntries(_, _)
OtherEntries(cards_root, i) ==
    IF i > Len(cards_root.keys) THEN <<>>
    ELSE (IF cards_root.keys[i] \in SeenKeys(cards_root) \/ ~Truthy(cards_root.vals[i])
          THEN <<>>
          ELSE DeckEntries(cards_root.vals[i], cards_root.keys[i]))
         \o OtherEntries(cards_root, i + 1)

\* lines 90-96: the value under `cards`, else the root itself
CardsRoot(data) ==
    IF IsDict(data) /\ Has(data, "cards") /\ Get(data, "cards") # JNull
    THEN Get(data, "cards")
    ELSE data

\* lines 100-147: a dict is always read as a mapping of sub-decks (the branch at
\* 143-147 that would read it as name -> record is under `else` and never runs)
CollectEntries(cards_root) ==
    IF IsDict(cards_root)
    THEN PreferredEntries(cards_root, 1) \o OtherEntries(cards_root, 1)
    ELSE IF IsList(cards_root) THEN cards_root.vals
    ELSE <<>>

\* line 153
ResolveName(e) ==
    PyOr(Get(e, "name"), PyOr(Get(e, "title"), PyOr(Get(e, "card_name"), JStr("Unknown"))))

\* line 154: int(e.get("quantity", e.get("qty", 1) or 1)); the `or 1` guards the
\* default of the outer get, that is the qty key only
ResolveQty(e) ==
    PyInt(GetOr(e, "quantity", PyOr(GetOr(e, "qty", JInt(1)), JInt(1))))

\* line 155
ResolveImage(e) ==
    PyOr(Get(e, "image"), PyOr(Get(e, "image_url"), PyOr(Get(e, "img"),
        PyOr(Get(e, "FaceURL"), PyOr(Get(e, "face"), JStr(""))))))

\* lines 157-160 with the sub-deck tag forgotten
TaggedNameNoTag(e) == ResolveName(e)

\* lines 157-160
TaggedName(e) ==
    IF Truthy(Get(e, "_source_deck")) /\ Get(e, "_source_deck") # JStr("main")
    THEN JStr("[" \o Fmt(Get(e, "_source_deck")) \o "] " \o Fmt(ResolveName(e)))
    ELSE ResolveName(e)

\* lines 150-161: the entries are added in order; what is no dict is skipped
RECURSIVE AddEntries(_, _, _)
AddEntries(p, entries, i) ==
    IF i > Len(entries) THEN Returned(p)
    ELSE IF ~IsDict(entries[i]) THEN AddEntries(p, entries, i + 1)
    ELSE IF ~ResolveQty(entries[i]).ok THEN Raised(p)
    ELSE AddEntries(
            add_card4(p, TaggedName(entries[i]),
                         GetOr(entries[i], "type", JStr("Card")),
                         JInt(ResolveQty(entries[i]).n),
                         ResolveImage(entries[i])),
            entries, i + 1)

\* line 82: the document is already in printer format
IsPrinterFormat(data) ==
    IsDict(data) /\ Truthy(Get(data, "cards")) /\ IsList(Get(data, "cards"))

build_printer_from_deck_json(data) ==
    IF IsPrinterFormat(data)
    THEN AddInternalCards(
            [NewPrinter(3, 3) EXCEPT !.deck_name = GetOr(data, "deck_name", @)],
            Get(data, "cards").vals, 1)
    ELSE AddEntries(NewPrinter(3, 3), CollectEntries(CardsRoot(data)), 1)

---------------------------------------------------------------------------
(* GADeckPrinter.load_from_tts and load_from_json *)

\* lines 99-105: deck id -> face url; [ok, keys, vals]
CardImagesMap(custom_deck) ==
    IF ~IsDict(custom_deck) \/ \E i \in 1..Len(custom_deck.vals) : ~IsDict(custom_deck.vals[i])
    THEN [ok |-> FALSE, map |-> Rec(<<>>)]
    ELSE [ok |-> TRUE,
          map |-> JDict(custom_deck.keys,
                        [i \in 1..Len(custom_deck.vals) |->
                            GetOr(custom_deck.vals[i], "FaceURL", JStr(""))])]

\* lines 133-136 with the increment lost
BumpFirstLost(cards, name, i) == cards

\* lines 133-136: the first card of that name gets one more copy
RECURSIVE BumpFirst(_, _, _)
BumpFirst(cards, name, i) ==
    IF i > Len(cards) THEN cards
    ELSE IF cards[i].name = name
         THEN [cards EXCEPT ![i].quantity = JInt(@.n + 1)]
         ELSE BumpFirst(cards, name, i + 1)

\* lines 111-136: one contained object after the other; card_count is the set of
\* names met so far
RECURSIVE AddContained(_, _, _, _, _)
AddContained(p, objs, i, card_count, images) ==
    IF i > Len(objs) THEN Returned(p)
    ELSE IF ~IsDict(objs[i]) \/ GetOr(objs[i], "CardID", JInt(0)).t # "int" THEN Raised(p)
    ELSE LET card_name == GetOr(objs[i], "Nickname", JStr("Unknown Card"))
             card_desc == GetOr(objs[i], "Description", JStr(""))
             card_id == GetOr(objs[i], "CardID", JInt(0)).n
             deck_id_key == PyStr(card_id \div 100)
             image_url == GetOr(images, deck_id_key, JStr(""))
         IN  IF card_name \notin card_count
             THEN AddContained(
                    add_card(p, Card(card_name, JStr("Card"), JInt(0), JInt(0), JInt(0),
                                     card_desc, JInt(1), image_url)),
                    objs, i + 1, card_count \cup {card_name}, images)
             ELSE AddContained([p EXCEPT !.cards = BumpFirst(@, card_name, 1)],
                               objs, i + 1, card_count, images)

\* GADeckPrinter.load_from_tts, on the decoded content of the file
load_from_tts(p, tts_data) ==
    IF ~IsDict(tts_data) THEN Raised(p)
    ELSE LET object_states == GetOr(tts_data, "ObjectStates", JList(<<>>)) IN
         IF ~Truthy(object_states) THEN Returned(p)
         ELSE IF ~IsList(object_states) \/ ~IsDict(object_states.vals[1]) THEN Raised(p)
         ELSE LET deck_obj == object_states.vals[1]
                  named == [p EXCEPT !.deck_name = GetOr(deck_obj, "Nickname", JStr("GA_Deck"))]
                  images == CardImagesMap(GetOr(deck_obj, "CustomDeck", Rec(<<>>)))
                  contained == GetOr(deck_obj, "ContainedObjects", JList(<<>>))
              IN  IF ~images.ok THEN Raised(named)
                  ELSE IF IsList(contained)
                       THEN AddContained(named, contained.vals, 1, {}, images.map)
                  ELSE IF contained.t \in {"dict", "str"} /\ ~Truthy(contained)
                       THEN Returned(named)
                  ELSE Raised(named)

\* the keyword parameters of add_card (line 42)
add_card_params ==
    {"name", "card_type", "cost", "power", "toughness", "ability", "quantity", "image_url"}

\* add_card(**card): card is a mapping that names the two required parameters and
\* nothing add_card does not take; otherwise TypeError
AcceptsKwargs(card) ==
    /\ IsDict(card)
    /\ \A i \in 1..Len(card.keys) : card.keys[i] \in add_card_params
    /\ Has(card, "name") /\ Has(card, "card_type")

\* lines 144-145
RECURSIVE AddKwargsCards(_, _, _)
AddKwargsCards(p, items, i) ==
    IF i > Len(items) THEN Returned(p)
    ELSE IF ~AcceptsKwargs(items[i]) THEN Raised(p)
    ELSE AddKwargsCards(
            add_card(p, Card(Get(items[i], "name"), Get(items[i], "card_type"),
                             GetOr(items[i], "cost", JInt(0)), GetOr(items[i], "power", JInt(0)),
                             GetOr(items[i], "toughness", JInt(0)),
                             GetOr(items[i], "ability", JStr("")),
                             GetOr(items[i], "quantity", JInt(1)),
                             GetOr(items[i], "image_url", JStr("")))),
            items, i + 1)

\* GADeckPrinter.load_from_json (the second definition, lines 138-145, is the one
\* the class keeps), on the decoded content of the file
load_from_json(p, data) ==
    IF ~IsDict(data) THEN Raised(p)
    ELSE LET named == [p EXCEPT !.deck_name = GetOr(data, "deck_name", @)]
             cards == GetOr(data, "cards", JList(<<>>))
         IN  IF IsList(cards) THEN AddKwargsCards(named, cards.vals, 1)
             ELSE IF cards.t \in {"dict", "str"} /\ ~Truthy(cards) THEN Returned(named)
             ELSE Raised(named)

---------------------------------------------------------------------------
(* GADeckPrinter.create_printable_cards_pdf, create_card_box, _download_image *)

\* one more requests.get for url
Requested(reqs, url) ==
    IF url \in DOMAIN reqs THEN [reqs EXCEPT ![url] = @ + 1] ELSE (url :> 1) @@ reqs

\* _download_image (lines 211-226): a cached image is returned without a request;
\* otherwise one request is issued, and only an image that was fetched and decoded
\* is put in the cache. Every exception ends in `return None`.
download_image(cache, reqs, url, fetch_ok) ==
    IF url \in cache THEN [img |-> TRUE, cache |-> cache, reqs |-> reqs]
    ELSE IF fetch_ok THEN [img |-> TRUE, cache |-> cache \cup {url}, reqs |-> Requested(reqs, url)]
    ELSE [img |-> FALSE, cache |-> cache, reqs |-> Requested(reqs, url)]

\* create_card_box without the except clause at 178: a failed embedding propagates
create_card_box_unguarded(cache, reqs, card, fetch_ok, embed_ok) ==
    IF ~Truthy(card.image_url)
    THEN [raised |-> FALSE, drawn |-> FALSE, cache |-> cache, reqs |-> reqs]
    ELSE [raised |-> download_image(cache, reqs, card.image_url, fetch_ok).img /\ ~embed_ok,
          drawn |-> download_image(cache, reqs, card.image_url, fetch_ok).img /\ embed_ok,
          cache |-> download_image(cache, reqs, card.image_url, fetch_ok).cache,
          reqs |-> download_image(cache, reqs, card.image_url, fetch_ok).reqs]

\* create_card_box (lines 159-179): draws only when there is an image reference, the
\* image was obtained and it could be embedded; the except clause at 178 swallows
\* a failed embedding
create_card_box(cache, reqs, card, fetch_ok, embed_ok) ==
    IF ~Truthy(card.image_url)
    THEN [raised |-> FALSE, drawn |-> FALSE, cache |-> cache, reqs |-> reqs]
    ELSE [raised |-> FALSE,
          drawn |-> download_image(cache, reqs, card.image_url, fetch_ok).img /\ embed_ok,
          cache |-> download_image(cache, reqs, card.image_url, fetch_ok).cache,
          reqs |-> download_image(cache, reqs, card.image_url, fetch_ok).reqs]

\* the page test of line 304 written with > for >=
PageFullOffByOne(p, card_index) == card_index > p.cards_per_row * p.cards_per_column

\* line 304: the page is full
PageFull(p, card_index) == card_index >= p.cards_per_row * p.cards_per_column

\* lines 310-311 filling the page column by column
CellOfColumnMajor(p, card_index) ==
    [row |-> card_index % p.cards_per_column, col |-> card_index \div p.cards_per_column]

\* lines 310-311: [row, col] of a cell of the page
CellOf(p, card_index) ==
    [row |-> card_index \div p.cards_per_row, col |-> card_index % p.cards_per_row]

\* every quantity is an integer: sum(card["quantity"] ...) does not raise
AllInt(cards) == \A i \in 1..Len(cards) : cards[i].quantity.t = "int"

\* sum of the quantities (lines 209, 299)
RECURSIVE SumQty(_, _)
SumQty(cards, i) == IF i > Len(cards) THEN 0 ELSE cards[i].quantity.n + SumQty(cards, i + 1)

NoLocals == [ci |-> 0, qty |-> 0, card_index |-> 0, page_num |-> 0]
NoCanvas == [open |-> FALSE, showPages |-> 0, cells |-> <<>>, saved |-> FALSE]

\* gui.App.__init__ (lines 34-59): an empty source entry, Generate enabled, Open
\* Output disabled, no worker, no result; no thread was started and no callback
\* is pending
NoGui ==
    [generate_btn |-> "normal", open_btn |-> "disabled", worker |-> 0,
     result |-> [by |-> 0, ok |-> FALSE, payload |-> "none"],
     source |-> "", source_entry |-> "normal",
     threads |-> <<>>, timers |-> 0, main |-> "idle", dialog |-> FALSE,
     status |-> "Idle", reported |-> [worker |-> 0, by |-> 0]]

\* where the code that called create_printable_cards_pdf goes on
AfterPdf == IF srcKind = "direct" THEN "done" ELSE "save_url"

\* lines 291-300: the canvas is opened and the counters start; summing the
\* quantities raises TypeError when one of them is no number
StartPdf ==
    /\ pc = "pdf_start"
    /\ IF AllInt(printer.cards)
       THEN /\ pg' = [ci |-> 1, qty |-> 0, card_index |-> 0, page_num |-> 1]
            /\ canvas' = [open |-> TRUE, showPages |-> 0, cells |-> <<>>, saved |-> FALSE]
            /\ pc' = "pdf_loop"
            /\ UNCHANGED result
       ELSE /\ pc' = "done"
            /\ result' = "raised"
            /\ UNCHANGED <<pg, canvas>>
    /\ UNCHANGED <<input, srcKind, printer, requests, files, gui>>

\* lines 303-317: one copy of the current card: a new page when the page is full,
\* then the cell is computed, create_card_box runs and card_index advances
PlaceCopy ==
    /\ pc = "pdf_loop"
    /\ pg.ci <= Len(printer.cards)
    /\ pg.qty < printer.cards[pg.ci].quantity.n
    /\ \E fetch_ok \in BOOLEAN, embed_ok \in BOOLEAN :
        LET turn == PageFull(printer, pg.card_index)
            idx == IF turn THEN 0 ELSE pg.card_index
            page == IF turn THEN pg.page_num + 1 ELSE pg.page_num
            box == create_card_box(printer.image_cache, requests, printer.cards[pg.ci],
                                   fetch_ok, embed_ok)
        IN  /\ printer' = [printer EXCEPT !.image_cache = box.cache]
            /\ requests' = box.reqs
            /\ IF box.raised
               THEN /\ pc' = "done"
                    /\ result' = "raised"
                    /\ canvas' = [canvas EXCEPT !.showPages = @ + (IF turn THEN 1 ELSE 0)]
                    /\ pg' = [pg EXCEPT !.card_index = idx, !.page_num = page]
               ELSE /\ canvas' = [canvas EXCEPT
                            !.showPages = @ + (IF turn THEN 1 ELSE 0),
                            !.cells = Append(@, [page |-> page,
                                                 row |-> CellOf(printer, idx).row,
                                                 col |-> CellOf(printer, idx).col,
                                                 card |-> pg.ci,
                                                 drawn |-> box.drawn])]
                    /\ pg' = [pg EXCEPT !.qty = @ + 1, !.card_index = idx + 1,
                                        !.page_num = page]
                    /\ UNCHANGED <<pc, result>>
    /\ UNCHANGED <<input, srcKind, files, gui>>

\* line 302: range(quantity) is exhausted (at once when quantity <= 0): next card
NextCard ==
    /\ pc = "pdf_loop"
    /\ pg.ci <= Len(printer.cards)
    /\ pg.qty >= printer.cards[pg.ci].quantity.n
    /\ pg' = [pg EXCEPT !.ci = @ + 1, !.qty = 0]
    /\ UNCHANGED <<input, srcKind, pc, printer, canvas, requests, result, files, gui>>

\* line 319: c.save() after the last copy of the last card
SavePdf ==
    /\ pc = "pdf_loop"
    /\ pg.ci > Len(printer.cards)
    /\ canvas' = [canvas EXCEPT !.saved = TRUE]
    /\ files' = files \cup {"pdf"}
    /\ pc' = AfterPdf
    /\ result' = IF srcKind = "direct" THEN "ok" ELSE result
    /\ UNCHANGED <<input, srcKind, printer, pg, requests, gui>>

---------------------------------------------------------------------------
(* The paginator called directly on a deck (as printerGA.py's __main__ does) *)

SeqsUpTo(S, n) == UNION {[1..k -> S] : k \in 0..n}

\* an entry of a deck handed to the paginator
PageCard(q, img) ==
    Card(JStr("A"), JStr("Card"), JInt(0), JInt(0), JInt(0), JStr(""), JInt(q), JStr(img))

\* the entries of the decks tried: any quantity with the url u1, a positive quantity
\* without image reference, and one copy with a second url
PageCards ==
    {PageCard(q, "u1") : q \in 0..MaxQty} \cup {PageCard(q, "") : q \in 1..MaxQty}
        \cup {PageCard(1, "u2")}

\* add_card for each entry, in order
RECURSIVE DeckOf(_, _, _)
DeckOf(p, cards, i) ==
    IF i > Len(cards) THEN p ELSE DeckOf(add_card(p, cards[i]), cards, i + 1)

InitPage ==
    /\ input = JNull
    /\ srcKind = "direct"
    /\ pc = "pdf_start"
    /\ \E r \in 1..MaxGrid, c \in 1..MaxGrid, cards \in SeqsUpTo(PageCards, MaxCards) :
            printer = DeckOf(NewPrinter(r, c), cards, 1)
    /\ pg = NoLocals
    /\ canvas = NoCanvas
    /\ requests = <<>>
    /\ result = "none"
    /\ files = {}
    /\ gui = NoGui

NextPage == StartPdf \/ PlaceCopy \/ NextCard \/ SavePdf

SpecPage == InitPage /\ [][NextPage]_vars

---------------------------------------------------------------------------
(* Properties of the paginator *)

CeilDiv(a, b) == (a + b - 1) \div b

Capacity == printer.cards_per_row * printer.cards_per_column

NonNegative(cards) == \A i \in 1..Len(cards) : cards[i].quantity.n >= 0

\* the pages that hold at least one cell
PagesWithCells == {canvas.cells[i].page : i \in 1..Len(canvas.cells)}

\* the copies the loop has gone past: range(q) of the cards before ci, and qty
RECURSIVE CopiesBefore(_, _)
CopiesBefore(cards, ci) ==
    IF ci <= 1 THEN 0
    ELSE (IF cards[ci - 1].quantity.n > 0 THEN cards[ci - 1].quantity.n ELSE 0)
         + CopiesBefore(cards, ci - 1)

\* C1: once create_printable_cards_pdf has saved the document of a deck with
\* non-negative quantities of total Q, exactly Q cells were filled, they lie on
\* exactly ceil(Q / capacity) pages, showPage was called only between two copies
\* (never after the last one, so a full last page starts no further page), and for
\* Q >= 1 the page counter page_num is ceil(Q / capacity).
C1_PagesAndCells ==
    (canvas.saved /\ AllInt(printer.cards) /\ NonNegative(printer.cards)) =>
        LET Q == SumQty(printer.cards, 1) IN
        /\ Len(canvas.cells) = Q
        /\ Cardinality(PagesWithCells) = CeilDiv(Q, Capacity)
        /\ PagesWithCells = 1..CeilDiv(Q, Capacity)
        /\ canvas.showPages = (IF Q = 0 THEN 0 ELSE CeilDiv(Q, Capacity) - 1)
        /\ (Q >= 1 => pg.page_num = CeilDiv(Q, Capacity))

\* C1 witness: four copies on a grid of two cells were saved, on two full pages
C1_Witness ==
    /\ canvas.saved
    /\ SumQty(printer.cards, 1) = 4
    /\ Capacity = 2
    /\ pg.page_num = 2
    /\ Len(canvas.cells) = 4

\* C6: in create_printable_cards_pdf no exception leaves create_card_box; every
\* copy the loop has gone past has its own cell, whatever became of its image; the
\* cell of a copy without image reference, or whose url never entered the cache
\* (every fetch of it failed), has nothing drawn; the loop can always go on, and
\* when the call is over the document is saved with one cell per copy.
C6_BlankCellsNeverFatal ==
    pc \in {"pdf_loop", "done"} =>
        /\ result # "raised"
        /\ Len(canvas.cells) = CopiesBefore(printer.cards, pg.ci) + pg.qty
        /\ \A i \in 1..Len(canvas.cells) :
            LET url == printer.cards[canvas.cells[i].card].image_url IN
            (~Truthy(url) \/ url \notin printer.image_cache) => ~canvas.cells[i].drawn
        /\ \A i, j \in 1..Len(canvas.cells) :
            (i # j) => <<canvas.cells[i].page, canvas.cells[i].row, canvas.cells[i].col>>
                        # <<canvas.cells[j].page, canvas.cells[j].row, canvas.cells[j].col>>
        /\ (pc = "pdf_loop" => ENABLED (PlaceCopy \/ NextCard \/ SavePdf))
        /\ (pc = "done" =>
                /\ canvas.saved
                /\ "pdf" \in files
                /\ Len(canvas.cells) = CopiesBefore(printer.cards, Len(printer.cards) + 1))

\* C6 witness: the document was saved; a copy with an image reference came out
\* blank after a request for it was issued, a copy without image reference came
\* out blank, and a later copy was drawn
C6_Witness ==
    /\ canvas.saved
    /\ \E i, j, k \in 1..Len(canvas.cells) :
        /\ i < k /\ j < k
        /\ Truthy(printer.cards[canvas.cells[i].card].image_url)
        /\ printer.cards[canvas.cells[i].card].image_url \in DOMAIN requests
        /\ ~canvas.cells[i].drawn
        /\ ~Truthy(printer.cards[canvas.cells[j].card].image_url)
        /\ ~canvas.cells[j].drawn
        /\ canvas.cells[k].drawn

\* C10: within one run of create_printable_cards_pdf, no image reference is
\* requested from the network more than once.
C10_AtMostOneRequest ==
    \A url \in DOMAIN requests : requests[url] <= 1

---------------------------------------------------------------------------
(* The JSON documents the normalizers are tried on *)

\* records of a decklist, and things that are no record
rA2 == Rec(<< <<"name", JStr("A")>>, <<"quantity", JInt(2)>>, <<"image", JStr("u1")>> >>)
rA1 == Rec(<< <<"name", JStr("A")>>, <<"quantity", JInt(1)>> >>)
rB3 == Rec(<< <<"name", JStr("")>>, <<"title", JStr("B")>>, <<"qty", JInt(3)>>,
              <<"image_url", JStr("u2")>> >>)
rQty0 == Rec(<< <<"card_name", JStr("C")>>, <<"qty", JInt(0)>>, <<"img", JStr("u1")>> >>)
rQtyNull == Rec(<< <<"qty", JNull>> >>)
rQuantity0 == Rec(<< <<"name", JStr("C")>>, <<"quantity", JInt(0)>> >>)
rQuantityNull == Rec(<< <<"name", JStr("C")>>, <<"quantity", JNull>> >>)
rNegative == Rec(<< <<"name", JStr("a")>>, <<"quantity", JInt(-1)>> >>)
rText2 == Rec(<< <<"name", JStr("a")>>, <<"quantity", JStr("2")>>, <<"type", JStr("Unit")>> >>)

Records == {rA2, rA1, rB3, rQty0, rQtyNull, rQuantity0, rQuantityNull, rNegative, rText2}
NonRecords == {JStr("x"), JNull, JInt(7)}

\* the lists tried as a root list and as an internal/export `cards` list
Lists == SeqsUpTo(Records \cup NonRecords, MaxLen)

\* the values tried for one sub-deck: lists, a mapping name -> record, an empty
\* list and a value that is no collection
SubDecks ==
    {JList(<<rA2>>), JList(<<rA1>>), JList(<<rA1, JStr("x"), rB3>>), JList(<<>>),
     JDict(<<"K", "L">>, <<rQtyNull, rA1>>), JStr("x")}

\* the orders of sub-deck names tried
DeckOrders ==
    {<<"main">>, <<"sideboard">>, <<"main", "sideboard">>, <<"sideboard", "main">>,
     <<"tokens", "material">>, <<"tokens", "sideboard", "main">>}

\* mappings that name the three preferred sub-decks in another order than the
\* normalizer's, around a sub-deck of another name
ReorderedMaps ==
    {JDict(<<"sideboard", "tokens", "material", "main">>, v) :
        v \in [1..4 -> {JList(<<rA2>>), JList(<<rB3, rA1>>), JList(<<>>)}]}

\* mappings of sub-deck names to sub-decks
DeckMaps ==
    UNION {{JDict(o, v) : v \in [1..Len(o) -> SubDecks]} : o \in DeckOrders}
        \cup ReorderedMaps

\* mappings card name -> record (or something that is no record)
NameMaps ==
    {JDict(<<"Bolt">>, <<v>>) : v \in {rA2, rQtyNull, JStr("x")}}
        \cup {JDict(<<"Bolt", "Potion">>, <<rQtyNull, v>>) : v \in {rA1, JInt(7)}}

\* an object of a save file's ContainedObjects
Obj(nick, id) == Rec(<< <<"Nickname", JStr(nick)>>, <<"Description", JStr("d")>>,
                        <<"CardID", JInt(id)>> >>)

ContainedPool ==
    {Obj("A", 100), Obj("A", 250), Obj("a", 101), Obj("B", 250),
     Rec(<< <<"CardID", JInt(100)>> >>), Obj("Unknown Card", 300)}

\* a save file: ObjectStates[0] is the deck container
SaveFile(objs) ==
    Rec(<< <<"ObjectStates", JList(<<
        Rec(<< <<"Nickname", JStr("Deck")>>,
               <<"CustomDeck", Rec(<< <<"1", Rec(<< <<"FaceURL", JStr("u1")>> >>)>>,
                                      <<"2", Rec(<< <<"FaceURL", JStr("u2")>> >>)>> >>)>>,
               <<"ContainedObjects", JList(objs)>> >>) >>)>> >>)

SaveFiles == {SaveFile(objs) : objs \in SeqsUpTo(ContainedPool, MaxObjs)}

InternalDocs ==
    {Rec(<< <<"deck_name", JStr("D")>>, <<"cards", JList(l)>> >>) : l \in Lists}
AggregateDocs == {Rec(<< <<"cards", m>> >>) : m \in DeckMaps}
RootLists == {JList(l) : l \in Lists}
OtherDocs == {JNull, JStr("x"), Rec(<< <<"cards", JNull>> >>), Rec(<< <<"cards", JStr("x")>> >>)}

Documents ==
    InternalDocs \cup AggregateDocs \cup RootLists \cup DeckMaps \cup NameMaps
        \cup SaveFiles \cup OtherDocs

---------------------------------------------------------------------------
(* Each normalizer applied to a document and a fresh printer *)

InitNorm ==
    /\ input \in Documents
    /\ srcKind = "direct"
    /\ pc = "normalize"
    /\ printer = NewPrinter(3, 3)
    /\ pg = NoLocals
    /\ canvas = NoCanvas
    /\ requests = <<>>
    /\ result = "none"
    /\ files = {}
    /\ gui = NoGui

\* what a call of a normalizer leaves: the printer, and whether it raised
Normalized(r, where) ==
    /\ printer' = r.printer
    /\ result' = IF r.raised THEN "raised" ELSE "ok"
    /\ pc' = where
    /\ UNCHANGED <<input, srcKind, pg, canvas, requests, files, gui>>

BuildPrinter ==
    /\ pc = "normalize"
    /\ LET r == build_printer_from_deck_json(input) IN
       \* the printer is a local of the function: an exception leaves none behind
       Normalized(IF r.raised THEN Raised(printer) ELSE r, "built")

LoadFromTts ==
    /\ pc = "normalize"
    /\ Normalized(load_from_tts(printer, input), "tts_loaded")

LoadFromJson ==
    /\ pc = "normalize"
    /\ Normalized(load_from_json(printer, input), "json_loaded")

NextNorm == BuildPrinter \/ LoadFromTts \/ LoadFromJson

SpecNorm == InitNorm /\ [][NextNorm]_vars

---------------------------------------------------------------------------
(* generate_from_tts.generate_from_source *)

\* the documents a run is tried on
RunDocuments ==
    {d \in Documents : d \in InternalDocs \cup RootLists => Len(SelectSeq(
        (IF IsList(d) THEN d ELSE Get(d, "cards")).vals, IsDict)) <= 1}

InitGen ==
    /\ input \in RunDocuments
    /\ srcKind \in {"local", "url"}
    /\ pc = "gen_start"
    /\ printer = NewPrinter(3, 3)
    /\ pg = NoLocals
    /\ canvas = NoCanvas
    /\ requests = <<>>
    /\ result = "none"
    /\ files = {}
    /\ gui = NoGui

\* return None, None
ReturnNone ==
    /\ result' = "empty"
    /\ pc' = "done"

\* lines 185 and 183: a document with a truthy ObjectStates goes to load_from_tts,
\* every other one to load_from_json
LoadLocal(p, j) ==
    IF IsDict(j) /\ Truthy(Get(j, "ObjectStates")) THEN load_from_tts(p, j)
    ELSE load_from_json(p, j)

\* lines 177-188: the source is a local file. Reading it, decoding it and loading
\* it into the printer are under one try: whatever is raised ends the run with
\* (None, None)
ReadLocal ==
    /\ pc = "gen_start"
    /\ srcKind = "local"
    /\ \E outcome \in {"unreadable", "not_json", "read"} :
        IF outcome = "read" /\ ~LoadLocal(printer, input).raised
        THEN /\ printer' = LoadLocal(printer, input).printer
             /\ pc' = "check"
             /\ UNCHANGED result
        ELSE /\ ReturnNone
             /\ UNCHANGED printer
    /\ UNCHANGED <<input, srcKind, pg, canvas, requests, files, gui>>

\* lines 190-207: the source is a url. A failed request and a body that is no JSON
\* end the run with (None, None); build_printer_from_deck_json is called outside
\* any try, so what it raises leaves generate_from_source
FetchUrl ==
    /\ pc = "gen_start"
    /\ srcKind = "url"
    /\ \E outcome \in {"http_error", "not_json", "fetched"} :
        IF outcome # "fetched"
        THEN /\ ReturnNone
             /\ UNCHANGED printer
        ELSE IF build_printer_from_deck_json(input).raised
        THEN /\ result' = "raised"
             /\ pc' = "done"
             /\ UNCHANGED printer
        ELSE /\ printer' = build_printer_from_deck_json(input).printer
             /\ pc' = "check"
             /\ UNCHANGED result
    /\ UNCHANGED <<input, srcKind, pg, canvas, requests, files, gui>>

\* line 209 without the test of the sum
NothingToRenderNoSum(p) == Len(p.cards) = 0

\* line 209: no entry, or quantities that sum to 0
NothingToRender(p) == Len(p.cards) = 0 \/ SumQty(p.cards, 1) = 0

\* lines 209-217: the empty result; summing raises TypeError when a quantity is no
\* number; otherwise create_printable_cards_pdf is called
CheckCards ==
    /\ pc = "check"
    /\ IF Len(printer.cards) > 0 /\ ~AllInt(printer.cards)
       THEN /\ result' = "raised"
            /\ pc' = "done"
       ELSE IF NothingToRender(printer)
       THEN ReturnNone
       ELSE /\ pc' = "pdf_start"
            /\ UNCHANGED result
    /\ UNCHANGED <<input, srcKind, printer, pg, canvas, requests, files, gui>>

\* lines 219-228: the url is saved beside the PDF when the source was no local
\* file; a failure to write it is swallowed
SaveDeckUrl ==
    /\ pc = "save_url"
    /\ \E written \in BOOLEAN :
        files' = IF srcKind = "url" /\ written THEN files \cup {"deck_url"} ELSE files
    /\ pc' = "save_json"
    /\ UNCHANGED <<input, srcKind, printer, pg, canvas, requests, result, gui>>

\* lines 230-238: deck.json is saved, a failure is swallowed; return printer, out
SaveDeckJson ==
    /\ pc = "save_json"
    /\ \E written \in BOOLEAN :
        files' = IF written THEN files \cup {"deck_json"} ELSE files
    /\ result' = "ok"
    /\ pc' = "done"
    /\ UNCHANGED <<input, srcKind, printer, pg, canvas, requests, gui>>

NextGen ==
    \/ ReadLocal \/ FetchUrl \/ CheckCards
    \/ StartPdf \/ PlaceCopy \/ NextCard \/ SavePdf
    \/ SaveDeckUrl \/ SaveDeckJson

SpecGen == InitGen /\ [][NextGen]_vars

---------------------------------------------------------------------------
(* Properties of the normalizers *)

CardNames(cards) == [i \in 1..Len(cards) |-> cards[i].name]
CardQuantities(cards) == [i \in 1..Len(cards) |-> cards[i].quantity]
SeqRange(q) == {q[i] : i \in 1..Len(q)}

\* the records of one sub-deck; in a mapping the key names a record without name
SubDeckRecords(value) ==
    IF IsList(value) THEN SelectSeq(value.vals, IsDict)
    ELSE IF IsDict(value)
         THEN SelectSeq([i \in 1..Len(value.vals) |->
                            IF IsDict(value.vals[i])
                            THEN SetDefault(value.vals[i], "name", JStr(value.keys[i]))
                            ELSE value.vals[i]], IsDict)
    ELSE <<>>

\* the name the tagging law gives a record of sub-deck k
LawName(k, r) ==
    IF k = "main" THEN ResolveName(r) ELSE JStr("[" \o k \o "] " \o ResolveName(r).s)

LawNames(k, value) ==
    [i \in 1..Len(SubDeckRecords(value)) |-> LawName(k, SubDeckRecords(value)[i])]

RECURSIVE RecordCount(_, _)
RecordCount(m, i) ==
    IF i > Len(m.vals) THEN 0 ELSE Len(SubDeckRecords(m.vals[i])) + RecordCount(m, i + 1)

Scenario2 ==
    Rec(<< <<"cards", JDict(<<"main", "sideboard">>, <<JList(<<rA2>>), JList(<<rA1>>)>>)>> >>)

\* C2: build_printer_from_deck_json on an aggregate document returns one entry per
\* record of its sub-decks (records of the same name are never merged); the entries
\* of each sub-deck are, in the records' order, named "[<sub-deck>] <name>" when the
\* sub-deck is not "main" and <name> when it is; and main [A x2], sideboard [A x1]
\* gives exactly [("A", 2), ("[sideboard] A", 1)], three copies in all.
C2_SubDeckTagging ==
    (pc = "built" /\ input \in AggregateDocs) =>
        LET m == Get(input, "cards") IN
        /\ result = "ok"
        /\ Len(printer.cards) = RecordCount(m, 1)
        /\ \A k \in 1..Len(m.keys) :
            SelectSeq(CardNames(printer.cards),
                      LAMBDA nm : nm \in SeqRange(LawNames(m.keys[k], m.vals[k])))
                = LawNames(m.keys[k], m.vals[k])
        /\ (input = Scenario2 =>
                /\ CardNames(printer.cards) = <<JStr("A"), JStr("[sideboard] A")>>
                /\ CardQuantities(printer.cards) = <<JInt(2), JInt(1)>>
                /\ SumQty(printer.cards, 1) = 3)

\* C2 witness: the scenario's document was normalized to its two entries
C2_Witness ==
    /\ pc = "built"
    /\ input = Scenario2
    /\ Len(printer.cards) = 2
    /\ printer.cards[2].name = JStr("[sideboard] A")

\* the objects of a save file, and the nickname the loader reads from each
Contained(doc) == Get(Get(doc, "ObjectStates").vals[1], "ContainedObjects").vals
Nick(obj) == GetOr(obj, "Nickname", JStr("Unknown Card"))

\* the nicknames in order of first appearance
FirstNicks(objs) ==
    LET firsts == {i \in 1..Len(objs) : \A j \in 1..(i - 1) : Nick(objs[j]) # Nick(objs[i])}
        F[k \in 0..Len(objs)] ==
            IF k = 0 THEN <<>>
            ELSE IF k \in firsts THEN Append(F[k - 1], Nick(objs[k])) ELSE F[k - 1]
    IN  F[Len(objs)]

\* C3: load_from_tts on a save file, into a fresh printer, leaves one entry per
\* distinct Nickname (compared as exact strings; an object without Nickname counts
\* as "Unknown Card"), in order of first appearance, each with as many copies as
\* there are contained objects of that Nickname.
C3_MergeByNickname ==
    (pc = "tts_loaded" /\ input \in SaveFiles) =>
        LET objs == Contained(input) IN
        /\ result = "ok"
        /\ CardNames(printer.cards) = FirstNicks(objs)
        /\ \A i \in 1..Len(printer.cards) :
            printer.cards[i].quantity =
                JInt(Cardinality({j \in 1..Len(objs) : Nick(objs[j]) = printer.cards[i].name}))

\* C3 witness: three objects, two of them with the same Nickname and one that
\* differs from it in case only, gave two entries, the first with two copies
C3_Witness ==
    /\ pc = "tts_loaded"
    /\ input \in SaveFiles
    /\ Len(Contained(input)) = 3
    /\ CardNames(printer.cards) = <<JStr("A"), JStr("a")>>
    /\ printer.cards[1].quantity = JInt(2)

\* the quantity the rule of C4 gives a record: quantity, else qty, else 1, where a
\* null or zero counts as missing
LawQty(r) == PyInt(PyOr(Get(r, "quantity"), PyOr(Get(r, "qty"), JInt(1)))).n

\* C4: build_printer_from_deck_json on a root list of records never raises and
\* gives every record the quantity of `quantity`, else of `qty`, else 1, a null or
\* zero under either key giving 1.
C4_QuantityNeverZero ==
    (pc = "built" /\ input \in RootLists) =>
        LET recs == SelectSeq(input.vals, IsDict) IN
        /\ result = "ok"
        /\ CardQuantities(printer.cards) = [i \in 1..Len(recs) |-> JInt(LawQty(recs[i]))]

\* one entry per record of a root mapping name -> record, named by the record or,
\* failing that, by its key
NameMapNames(doc) ==
    [i \in 1..Len(SubDeckRecords(doc)) |-> ResolveName(SubDeckRecords(doc)[i])]

\* C8: build_printer_from_deck_json on a root that has no `cards` key reads the root
\* as the collection of records: a root list gives one entry per record, and so
\* does a root mapping card name -> record, the key naming a record without name.
C8_FallbackRoot ==
    /\ (pc = "built" /\ input \in RootLists /\ result = "ok") =>
            Len(printer.cards) = Len(SelectSeq(input.vals, IsDict))
    /\ (pc = "built" /\ input \in NameMaps) =>
            /\ result = "ok"
            /\ CardNames(printer.cards) = NameMapNames(input)

\* a document without the items that are no record
WithoutNonRecords(doc) ==
    IF IsList(doc) THEN JList(SelectSeq(doc.vals, IsDict))
    ELSE Rec(<< <<"deck_name", Get(doc, "deck_name")>>,
                <<"cards", JList(SelectSeq(Get(doc, "cards").vals, IsDict))>> >>)

\* C9: in a root list as in an internal/export `cards` list, an item that is no
\* record is skipped without an exception: the entries are those of the document
\* without such items.
C9_NonRecordsSkipped ==
    (pc = "built" /\ input \in RootLists \cup InternalDocs) =>
        /\ (result = "raised") = build_printer_from_deck_json(WithoutNonRecords(input)).raised
        /\ (result = "ok" =>
                printer.cards = build_printer_from_deck_json(WithoutNonRecords(input)).printer.cards)

---------------------------------------------------------------------------
(* Properties of the generation run *)

\* the deck the normalizer left has no entry, or integer quantities of total 0
EmptyDeck == Len(printer.cards) = 0 \/ (AllInt(printer.cards) /\ SumQty(printer.cards, 1) = 0)

\* C5: in generate_from_source, when normalization has left a deck without entries
\* or of total quantity 0, the next step returns (None, None): nothing is raised,
\* no canvas is opened and no file is written, then or later; a canvas or a file
\* exists only for a deck that is not empty.
C5_EmptyResult ==
    /\ [](canvas.open \/ files # {} => ~EmptyDeck)
    /\ [][(pc = "check" /\ EmptyDeck) =>
            (pc' = "done" /\ result' = "empty" /\ files' = {} /\ canvas' = NoCanvas)]_vars
    /\ [][pc # "done"]_vars

\* C5 witness: a deck with an entry but no copy ended the run with (None, None)
C5_Witness ==
    /\ pc = "done"
    /\ result = "empty"
    /\ Len(printer.cards) > 0
    /\ SumQty(printer.cards, 1) = 0
    /\ files = {}

\* C7: generate_from_source writes an output file only after normalization has
\* completed with a positive total quantity, and a run that returned (None, None)
\* has written none.
C7_WritesOnlyForPositiveTotal ==
    /\ (files # {} => (AllInt(printer.cards) /\ SumQty(printer.cards, 1) > 0))
    /\ (result = "empty" => files = {} /\ ~canvas.open)

\* the part of C7 about failed runs alone: a run that returned (None, None), as
\* every run whose fetch or parse failed does, wrote nothing
C7_FailedRunsWriteNothing ==
    result = "empty" => (files = {} /\ ~canvas.open)

---------------------------------------------------------------------------
(* Local file against HTTP endpoint *)

\* the uniform view of a deck: name, type, quantity and image reference of each
\* entry, in order
Uniform(cards) ==
    [i \in 1..Len(cards) |->
        <<cards[i].name, cards[i].type, cards[i].quantity, cards[i].image_url>>]

\* the loader generate_from_source picks for a local file holding this document
LocalLoaderPc(doc) ==
    IF IsDict(doc) /\ Truthy(Get(doc, "ObjectStates")) THEN "tts_loaded" ELSE "json_loaded"

\* C11: for a save file, an internal/export document and an aggregate document,
\* the loader generate_from_source uses for a local file (load_from_tts or
\* load_from_json) and the one it uses for a url (build_printer_from_deck_json)
\* end the same way on the same decoded value: both raise, or both leave the same
\* uniform card list.
C11_LocalEqualsUrl ==
    (/\ input \in SaveFiles \cup InternalDocs \cup AggregateDocs
     /\ pc = LocalLoaderPc(input)) =>
        /\ (result = "raised") = build_printer_from_deck_json(input).raised
        /\ (result = "ok" =>
                Uniform(printer.cards)
                    = Uniform(build_printer_from_deck_json(input).printer.cards))

---------------------------------------------------------------------------
(* Order of the sub-decks *)

\* the sub-decks that contribute: present and non-empty
NonEmptyKeys(m) == SelectSeq(m.keys, LAMBDA k : Truthy(Get(m, k)))

\* main, material, sideboard, then the other names in the mapping's own order
OrderLaw(m) ==
    SelectSeq(<<"main", "material", "sideboard">>, LAMBDA k : k \in SeqRange(NonEmptyKeys(m)))
        \o SelectSeq(NonEmptyKeys(m), LAMBDA k : k \notin {"main", "material", "sideboard"})

\* the entry names the sub-decks give when taken in that order
RECURSIVE NamesInOrder(_, _, _)
NamesInOrder(m, order, i) ==
    IF i > Len(order) THEN <<>>
    ELSE LawNames(order[i], Get(m, order[i])) \o NamesInOrder(m, order, i + 1)

\* C12: build_printer_from_deck_json on an aggregate document gives the records of
\* "main", then of "material", then of "sideboard" (each if present and non-empty,
\* in the records' own order), then those of every other non-empty sub-deck in the
\* order of the mapping's keys, and the records of no sub-deck twice.
C12_SubDeckOrder ==
    (pc = "built" /\ input \in AggregateDocs) =>
        LET m == Get(input, "cards") IN
        /\ result = "ok"
        /\ CardNames(printer.cards) = NamesInOrder(m, OrderLaw(m), 1)
        /\ Len(printer.cards) = RecordCount(m, 1)

\* C12 witness: sideboard, tokens, material and main, all non-empty and named in
\* that order, came out as main, material, sideboard, tokens
C12_Witness ==
    /\ pc = "built"
    /\ input \in AggregateDocs
    /\ Get(input, "cards") =
            JDict(<<"sideboard", "tokens", "material", "main">>,
                  <<JList(<<rA2>>), JList(<<rB3, rA1>>), JList(<<rA2>>), JList(<<rB3, rA1>>)>>)
    /\ CardNames(printer.cards) =
            <<JStr("B"), JStr("A"), JStr("[material] A"), JStr("[sideboard] A"),
              JStr("[tokens] B"), JStr("[tokens] A")>>

---------------------------------------------------------------------------
(* Placement of the copies *)

\* the cells filled for entry n of the deck
CellsOfCard(n) == {i \in 1..Len(canvas.cells) : canvas.cells[i].card = n}

\* C13: in create_printable_cards_pdf the k-th placed copy (k from 0) is on page
\* k div capacity (the first page being page_num 1), at row (k mod capacity) div
\* cards_per_row and column (k mod capacity) mod cards_per_row, inside the grid;
\* no two copies share a cell of a page; copies follow the deck's order, those of
\* one entry in consecutive cells, and a saved document holds as many cells of an
\* entry as its quantity.
C13_RowMajorPlacement ==
    canvas.open =>
        /\ \A i \in 1..Len(canvas.cells) :
            LET k == i - 1
                cell == canvas.cells[i]
            IN  /\ cell.page = (k \div Capacity) + 1
                /\ cell.row = (k % Capacity) \div printer.cards_per_row
                /\ cell.col = (k % Capacity) % printer.cards_per_row
                /\ 0 <= cell.row /\ cell.row < printer.cards_per_column
                /\ 0 <= cell.col /\ cell.col < printer.cards_per_row
        /\ \A i, j \in 1..Len(canvas.cells) :
            /\ (i # j) => <<canvas.cells[i].page, canvas.cells[i].row, canvas.cells[i].col>>
                            # <<canvas.cells[j].page, canvas.cells[j].row, canvas.cells[j].col>>
            /\ (i < j) => canvas.cells[i].card <= canvas.cells[j].card
        /\ (canvas.saved =>
                \A n \in 1..Len(printer.cards) :
                    Cardinality(CellsOfCard(n)) = printer.cards[n].quantity.n)

\* C13 witness: on a grid of two by two, two entries of two copies each were
\* saved; the second entry's copies fill the second row
C13_Witness ==
    /\ canvas.saved
    /\ printer.cards_per_row = 2 /\ printer.cards_per_column = 2
    /\ Len(canvas.cells) = 4
    /\ canvas.cells[3] = [canvas.cells[3] EXCEPT !.page = 1, !.row = 1, !.col = 0, !.card = 2]
    /\ canvas.cells[4] = [canvas.cells[4] EXCEPT !.page = 1, !.row = 1, !.col = 1, !.card = 2]

---------------------------------------------------------------------------
(* GADeckPrinter.save_to_json followed by load_from_json *)

\* the record json.dump writes for a card: the card dict's keys, in its order
CardJson(card) ==
    Rec(<< <<"name", card.name>>, <<"type", card.type>>, <<"cost", card.cost>>,
           <<"power", card.power>>, <<"toughness", card.toughness>>,
           <<"ability", card.ability>>, <<"quantity", card.quantity>>,
           <<"image_url", card.image_url>> >>)

\* GADeckPrinter.save_to_json: the document written, as json.load reads it back
save_to_json(p) ==
    Rec(<< <<"deck_name", p.deck_name>>,
           <<"cards", JList([i \in 1..Len(p.cards) |-> CardJson(p.cards[i])])>> >>)

\* the deck names tried
DeckNames == {"GA_Deck", "Sample GA Deck"}

\* a printer holding a deck, about to be saved
InitTrip ==
    /\ input = JNull
    /\ srcKind = "direct"
    /\ pc = "trip_start"
    /\ \E nm \in DeckNames, cards \in SeqsUpTo(PageCards, MaxCards) :
            printer = DeckOf([NewPrinter(3, 3) EXCEPT !.deck_name = JStr(nm)], cards, 1)
    /\ pg = NoLocals
    /\ canvas = NoCanvas
    /\ requests = <<>>
    /\ result = "none"
    /\ files = {}
    /\ gui = NoGui

\* printer.save_to_json(file): the file holds the document
SaveToJson ==
    /\ pc = "trip_start"
    /\ input' = save_to_json(printer)
    /\ files' = files \cup {"deck_json"}
    /\ pc' = "saved"
    /\ UNCHANGED <<srcKind, printer, pg, canvas, requests, result, gui>>

\* GADeckPrinter().load_from_json(file) on the file just written
LoadSaved ==
    /\ pc = "saved"
    /\ Normalized(load_from_json(NewPrinter(3, 3), input), "reloaded")

NextTrip == SaveToJson \/ LoadSaved

SpecTrip == InitTrip /\ [][NextTrip]_vars

\* C14: the document save_to_json wrote is accepted by load_from_json, and the
\* printer it fills has the deck_name and, in order, the entries (name, type,
\* quantity, image reference) of the printer that was saved.
C14_SaveLoadRoundTrip ==
    pc = "reloaded" =>
        /\ result = "ok"
        /\ printer.deck_name = Get(input, "deck_name")
        /\ [i \in 1..Len(printer.cards) |-> CardJson(printer.cards[i])]
                = Get(input, "cards").vals

---------------------------------------------------------------------------
(* Quantities of the uniform card list *)

\* C15: whatever the document, the entries a normalizer (load_from_tts,
\* load_from_json, build_printer_from_deck_json) leaves in the printer when it
\* returns all have an integer quantity >= 0.
C15_QuantitiesNonNegative ==
    (pc \in {"built", "tts_loaded", "json_loaded"} /\ result = "ok") =>
        /\ AllInt(printer.cards)
        /\ NonNegative(printer.cards)

\* the same for load_from_tts alone, which counts objects
C15_TtsQuantitiesPositive ==
    (pc = "tts_loaded" /\ result = "ok") =>
        \A i \in 1..Len(printer.cards) :
            printer.cards[i].quantity.t = "int" /\ printer.cards[i].quantity.n >= 1

---------------------------------------------------------------------------
(* gui.App: start_generation, _run_generation, _poll_worker *)

\* the threads for which is_alive() holds: started, run() not yet over
Alive(g) == {i \in 1..Len(g.threads) : g.threads[i] # "dead"}

\* line 107 with the test of is_alive() dropped
StillRunningIgnored(g) == FALSE

\* line 107: self._worker and self._worker.is_alive()
StillRunning(g) == g.worker # 0 /\ g.worker \in Alive(g)

\* what _run_generation stores for an outcome of generate_from_source: it returned
\* (printer, path), it returned (None, None), or it raised
StoredResult(i, outcome) ==
    CASE outcome = "ok" -> [by |-> i, ok |-> TRUE, payload |-> "path"]
      [] outcome = "empty" -> [by |-> i, ok |-> TRUE, payload |-> "none"]
      [] OTHER -> [by |-> i, ok |-> FALSE, payload |-> "traceback"]

InitGui ==
    /\ input = JNull
    /\ srcKind = "direct"
    /\ pc = "mainloop"
    /\ printer = NewPrinter(3, 3)
    /\ pg = NoLocals
    /\ canvas = NoCanvas
    /\ requests = <<>>
    /\ result = "none"
    /\ files = {}
    /\ gui = NoGui

\* the callbacks of the Tk main loop run one at a time, and a disabled button
\* runs no command; a message box lets no click through to the window
MainIdle == gui.main = "idle"
CanClickGenerate == MainIdle /\ ~gui.dialog /\ gui.generate_btn = "normal"

NoProgramChange == UNCHANGED <<input, srcKind, pc, printer, pg, canvas, requests, result, files>>

\* the texts the user puts in the source entry
Sources == {"", "deck.json"}

\* the user edits the source entry (or picks a file with Browse...), which a
\* disabled entry does not allow
EditSource ==
    /\ MainIdle /\ ~gui.dialog
    /\ gui.source_entry = "normal"
    /\ \E s \in Sources \ {gui.source} : gui' = [gui EXCEPT !.source = s]
    /\ NoProgramChange

\* start_generation, lines 78-82: no source was entered; a warning is shown
ClickWithoutSource ==
    /\ CanClickGenerate
    /\ gui.source = ""
    /\ gui' = [gui EXCEPT !.dialog = TRUE]
    /\ NoProgramChange

\* start_generation, lines 78-91: the controls are disabled
DisableControls ==
    /\ CanClickGenerate
    /\ gui.source # ""
    /\ Len(gui.threads) < MaxRuns
    /\ gui' = [gui EXCEPT !.generate_btn = "disabled", !.open_btn = "disabled",
                          !.source_entry = "disabled",
                          !.status = "Starting generation...", !.main = "disabled"]
    /\ NoProgramChange

\* start_generation, lines 94-95: the worker thread is created and started
StartWorker ==
    /\ gui.main = "disabled"
    /\ gui' = [gui EXCEPT !.threads = Append(@, "run"), !.worker = Len(gui.threads) + 1,
                          !.main = "started"]
    /\ NoProgramChange

\* start_generation, line 96: self.after(200, self._poll_worker)
SchedulePoll ==
    /\ gui.main = "started"
    /\ gui' = [gui EXCEPT !.timers = @ + 1, !.main = "idle"]
    /\ NoProgramChange

\* _run_generation, lines 99-104, on the worker thread: generate_from_source ends
\* and self._result is assigned
WorkerStore ==
    /\ \E i \in 1..Len(gui.threads), outcome \in {"ok", "empty", "raised"} :
        /\ gui.threads[i] = "run"
        /\ gui' = [gui EXCEPT !.threads[i] = "stored", !.result = StoredResult(i, outcome)]
    /\ NoProgramChange

\* _run_generation returns: the thread is no longer alive
WorkerExit ==
    /\ \E i \in 1..Len(gui.threads) :
        /\ gui.threads[i] = "stored"
        /\ gui' = [gui EXCEPT !.threads[i] = "dead"]
    /\ NoProgramChange

\* _poll_worker, lines 107-128, run by a pending after() callback: while the
\* worker is alive it schedules itself again; otherwise it enables the controls
\* and reports self._result in a message box
PollWorker ==
    /\ MainIdle
    /\ gui.timers > 0
    /\ IF StillRunning(gui)
       THEN gui' = [gui EXCEPT !.timers = (@ - 1) + 1]
       ELSE gui' = [gui EXCEPT
                !.timers = @ - 1,
                !.source_entry = "normal",
                !.generate_btn = "normal",
                !.open_btn = IF gui.result.ok /\ gui.result.payload # "none"
                             THEN "normal" ELSE "disabled",
                !.status = IF gui.result.ok /\ gui.result.payload # "none"
                           THEN "Done" ELSE "Failed",
                !.reported = [worker |-> gui.worker, by |-> gui.result.by],
                !.dialog = TRUE]
    /\ NoProgramChange

\* the message box is closed
DismissDialog ==
    /\ gui.dialog
    /\ gui' = [gui EXCEPT !.dialog = FALSE]
    /\ NoProgramChange

NextGui ==
    \/ EditSource \/ ClickWithoutSource \/ DisableControls \/ StartWorker \/ SchedulePoll
    \/ WorkerStore \/ WorkerExit \/ PollWorker \/ DismissDialog

SpecGui == InitGui /\ [][NextGui]_vars

\* C16: whatever the order of clicks, after() callbacks and worker steps, at most
\* one worker thread is alive; while the Generate button is enabled none is alive
\* and no callback is pending; a worker is started only with the button already
\* disabled; and the button goes back to enabled only in a step of _poll_worker
\* that found its worker not alive and reports the result that worker stored.
C16_SingleWorker ==
    /\ [](Cardinality(Alive(gui)) <= 1)
    /\ [](gui.generate_btn = "normal" => (Alive(gui) = {} /\ gui.timers = 0))
    /\ [][Len(gui'.threads) > Len(gui.threads) =>
            (gui.generate_btn = "disabled" /\ Alive(gui) = {})]_vars
    /\ [][(gui.generate_btn = "disabled" /\ gui'.generate_btn = "normal") =>
            /\ gui.timers > 0
            /\ gui.worker \notin Alive(gui)
            /\ gui.result.by = gui.worker
            /\ gui'.reported = [worker |-> gui.worker, by |-> gui.worker]]_vars

\* C16 witness: a second generation was started after the first was reported, and
\* _poll_worker has reported the second worker's own result
C16_Witness ==
    /\ Len(gui.threads) = 2
    /\ Alive(gui) = {}
    /\ gui.generate_btn = "normal"
    /\ gui.reported = [worker |-> 2, by |-> 2]

====
